---- MODULE Spec2Model ----
(***************************************************************************)
(* A model of the training pipeline of loss1:                              *)
(*   - Learning.learn and save_checkpoint   (Learning.py, transformer/Model.py) *)
(*   - Vocab.read, Vocab.__getitem__, Vocab.build, Dataset (Data.py)       *)
(*   - prepare_input and the masked softmax of MultiHead_Attn             *)
(* Each part has its own specification over the shared variables; the      *)
(* variables of the other parts stay at their initial value.               *)
(***************************************************************************)
EXTENDS Integers, Sequences, FiniteSets, TLC

VARIABLES
  \* ---- Learning.learn -------------------------------------------------
  max_steps, max_epochs, report_every, validate_every, save_every,
  keep_last_n,          \* the options copied by Learning.__init__
  hasValid,             \* validset is not None
  nTrain,               \* len(trainset)
  startStep,            \* optScheduler._step when learn is entered
  epoch, n_batch, step, \* locals of learn, optScheduler._step
  loss_report, step_report,
  lpc,                  \* position in learn: "top", "batch", "returned", "raised"
  stop,                 \* stop path taken: "none", "max_steps", "max_epochs"
  acts,                 \* what the last loop body did, in order
  disk,                 \* names (digit parts) of the checkpoint files of the suffix
  saved,                \* history: digit parts of the files written, oldest first
  loaded,               \* what a later load_checkpoint(_or_initialise) call gave
  \* ---- Dataset.__init__ ----------------------------------------------
  txt_src, txt_tgt,     \* the two text files: a sequence of lines, each line
                        \* the token sequence the tokenizer yields for it
  shard_size, batch_size,
  dpc,                  \* position in Dataset.__init__
  derr,                 \* how construction failed, "none" while it has not
  d_i,                  \* the local i of __init__ ("unbound" before any loop pass)
  ldata,                \* [ltokens_src, ltokens_tgt] per line
  idata,                \* [pos, len_src, len_tgt] per line
  shards,               \* the sorted shards
  created,              \* history: self.batches as built, before the last shuffle
  batches,              \* self.batches
  ofile,                \* the cache path given to Dataset: "None" or "path"
  cache,                \* the file at that path: NoFile, or what was pickled
  d_calls,              \* how many times a Dataset was constructed with this path
  d_prev,               \* history: how the previous construction ended
  \* ---- Vocab.read, Vocab.__getitem__ ---------------------------------
  v_exists,             \* os.path.exists(file)
  v_nlines,             \* the number of lines of the file read so far
  v_skip,               \* history: the last entry skipped with a warning
  idx_to_tok, tok_to_idx,
  vpc,                  \* "reading", "loaded", "failed"
  verr,                 \* how reading failed, "none" while it has not
  v_key, v_res,         \* the last vocab[key] and what it gave
  \* ---- Vocab.build ----------------------------------------------------
  b_stream,             \* the tokens of the stdin lines, in order
  min_freq, max_size,
  tok_to_frq,           \* the frequency of each token
  b_seen,               \* the keys of tok_to_frq in insertion order
  b_cands,              \* the sorted items not yet visited by the loop
  b_out,                \* the lines printed
  b_n,                  \* the local n
  bpc,                  \* "count", "reserved", "emit", "done"
  \* ---- prepare_input, decoder self-attention --------------------------
  batch_src, batch_tgt, \* one batch: a list of index sequences each
  p_src, p_tgt, p_ref, msk_src, msk_tgt,
  w_zero,               \* w_zero[b][i][j]: the attention weight of query i on key j is 0
  mpc                   \* "input", "prepared", "attended"

varsLearn == <<max_steps, max_epochs, report_every, validate_every, save_every,
               keep_last_n, hasValid, nTrain, startStep, epoch, n_batch, step,
               loss_report, step_report, lpc, stop, acts, disk, saved, loaded>>

varsData == <<txt_src, txt_tgt, shard_size, batch_size, dpc, derr, d_i, ldata,
              idata, shards, created, batches, ofile, cache, d_calls, d_prev>>

varsVocab == <<v_exists, v_nlines, v_skip, idx_to_tok, tok_to_idx, vpc, verr, v_key, v_res>>

varsBuild == <<b_stream, min_freq, max_size, tok_to_frq, b_seen, b_cands, b_out,
               b_n, bpc>>

varsMask == <<batch_src, batch_tgt, p_src, p_tgt, p_ref, msk_src, msk_tgt, w_zero, mpc>>

vars == <<varsLearn, varsData, varsVocab, varsBuild, varsMask>>

\* what the actions of one part leave alone
restLearn == <<varsData, varsVocab, varsBuild, varsMask>>
restData  == <<varsLearn, varsVocab, varsBuild, varsMask>>
restVocab == <<varsLearn, varsData, varsBuild, varsMask>>
restBuild == <<varsLearn, varsData, varsVocab, varsMask>>
restMask  == <<varsLearn, varsData, varsVocab, varsBuild>>

(***************************************************************************)
(* Bounds of the model.                                                    *)
(***************************************************************************)
MaxSteps  == 2   \* max_steps  is drawn from 0..MaxSteps
MaxEpochs == 2   \* max_epochs is drawn from 0..MaxEpochs
MaxTrain  == 2   \* the training set holds 0..MaxTrain batches
StepCap   == 3   \* optimizer steps explored per run
EpochCap  == 3   \* epochs explored per run
EveryValues == {0, 1, 2}          \* report_every, validate_every, save_every
KeepValues  == {0, 1, 2}          \* keep_last_n
LossValues  == {1, 2}             \* loss_token.item(), in arbitrary units
StartSteps  == {0, 99999998}      \* fresh run, or resumed from that checkpoint
MaxLines  == 3   \* each text file holds 0..MaxLines lines
MaxShard  == 2   \* shard_size is drawn from 0..MaxShard
MaxBatch  == 2   \* batch_size is drawn from 1..MaxBatch
MaxCacheLines == 2   \* lines per text file where the cache is explored
MaxCalls  == 2   \* constructions of a Dataset with one cache path
\* A token is a sequence of characters; a line of text is the sequence of
\* tokens the tokenizer yields for it.  <<"z">> is in no vocabulary.
SrcLineSet == {<<>>, << <<"b">>, <<"z">> >>}
TgtLineSet == {<<>>, << <<"b">> >>}
MaxVocabLines == 7   \* a vocabulary file holds 0..MaxVocabLines lines
MaxStream == 4       \* Vocab.build reads 0..MaxStream tokens
MaxSize   == 7       \* max_size is drawn from 0..MaxSize
MinFreqValues == {1, 2}
BuildTokens == {<<"a">>, <<"b">>, <<"c">>}
MaxElems  == 2       \* a batch given to prepare_input holds 1..MaxElems sequences
MaxRest   == 2       \* a target sequence is <bos> and 1..MaxRest further indices

(***************************************************************************)
(* Checkpoint file names: "{}.checkpoint_{:08d}.pt".format(suffix, step).  *)
(* A name is modelled by its digit part, a sequence of digits 0..9.        *)
(***************************************************************************)
CkptWidth == 8

RECURSIVE Digits(_)
Digits(n) == IF n < 10 THEN <<n>> ELSE Append(Digits(n \div 10), n % 10)

RECURSIVE ZeroPad(_, _)
ZeroPad(ds, w) == IF Len(ds) >= w THEN ds ELSE ZeroPad(<<0>> \o ds, w)

\* "{:08d}": at least 8 digits, zero padded on the left
CkptName(s) == ZeroPad(Digits(s), CkptWidth)

\* glob '.checkpoint_????????.pt': exactly eight characters in the step part
GlobMatches(name) == Len(name) = CkptWidth

\* Python's string order, on digit sequences
RECURSIVE LexLess(_, _)
LexLess(a, b) ==
  IF a = <<>> THEN b # <<>>
  ELSE IF b = <<>> THEN FALSE
  ELSE IF Head(a) # Head(b) THEN Head(a) < Head(b)
  ELSE LexLess(Tail(a), Tail(b))

\* sorted(glob.glob(...))
RECURSIVE SortedNames(_)
SortedNames(S) ==
  IF S = {} THEN <<>>
  ELSE LET m == CHOOSE x \in S : \A y \in S \ {x} : LexLess(x, y)
       IN  <<m>> \o SortedNames(S \ {m})

GlobFiles(d) == SortedNames({f \in d : GlobMatches(f)})

\* while keep_last_n > 0 and len(files) > keep_last_n: os.remove(files.pop(0))
RECURSIVE RemoveOldest(_, _, _)
RemoveOldest(d, files, keep) ==
  IF keep > 0 /\ Len(files) > keep
  THEN RemoveOldest(d \ {Head(files)}, Tail(files), keep)
  ELSE d

save_checkpoint(d, s, keep) ==
  LET d1 == d \cup {CkptName(s)}
  IN  RemoveOldest(d1, GlobFiles(d1), keep)

\* checkpoint['step'] of the file of that name: the step it was saved at
RECURSIVE StepOf(_)
StepOf(name) ==
  IF name = <<>> THEN 0
  ELSE 10 * StepOf(SubSeq(name, 1, Len(name) - 1)) + name[Len(name)]

NotLoaded == [fn |-> "none", kind |-> "none", step |-> 0]

\* files[-1] of the sorted glob: "last is the newest"
LastFile(files) == files[Len(files)]

\* Model.py lines 42-56
load_checkpoint(d) ==
  LET files == GlobFiles(d)
  IN  IF Len(files) = 0
      THEN [fn |-> "load_checkpoint", kind |-> "SystemExit", step |-> 0]
      ELSE [fn |-> "load_checkpoint", kind |-> "loaded", step |-> StepOf(LastFile(files))]

\* Model.py lines 58-80
load_checkpoint_or_initialise(d) ==
  LET files == GlobFiles(d)
  IN  IF Len(files) = 0
      THEN [fn |-> "load_checkpoint_or_initialise", kind |-> "initialised", step |-> 0]
      ELSE [fn |-> "load_checkpoint_or_initialise", kind |-> "loaded",
            step |-> StepOf(LastFile(files))]

(***************************************************************************)
(* Learning.learn                                                          *)
(***************************************************************************)
\* optScheduler.step(): the step counter advances by one per call
OptStep(s) == s + 1

\* "if self.x_every and self.optScheduler._step % self.x_every == 0"
Due_every_step(every, s) == every # 0
Due(every, s) == every # 0 /\ s % every = 0

\* "if self.max_steps and self.optScheduler._step >= self.max_steps"
StopBySteps_late(s) == max_steps # 0 /\ s > max_steps
StopBySteps(s) == max_steps # 0 /\ s >= max_steps

\* "if self.max_epochs and epoch >= self.max_epochs"
StopByEpochs(e) == max_epochs # 0 /\ e >= max_epochs

\* runs the code itself never ends; the model explores them up to the caps
StepsUnbounded  == max_steps = 0 /\ max_epochs = 0
EpochsUnbounded == max_epochs = 0 /\ (max_steps = 0 \/ nTrain = 0)

InitLearn ==
  /\ max_steps \in 0..MaxSteps
  /\ max_epochs \in 0..MaxEpochs
  /\ report_every \in EveryValues
  /\ validate_every \in EveryValues
  /\ save_every \in EveryValues
  /\ keep_last_n \in KeepValues
  /\ hasValid \in BOOLEAN
  /\ nTrain \in 0..MaxTrain
  /\ startStep \in StartSteps
  /\ step = startStep
  /\ epoch = 0
  /\ n_batch = 0
  /\ loss_report = 0
  /\ step_report = 0
  /\ lpc = "top"
  /\ stop = "none"
  /\ acts = <<>>
  /\ disk = IF startStep = 0 THEN {} ELSE {CkptName(startStep)}
  /\ saved = IF startStep = 0 THEN <<>> ELSE <<CkptName(startStep)>>
  /\ loaded = NotLoaded

\* lines 51-55: a new epoch begins
EpochStart ==
  /\ UNCHANGED restLearn
  /\ lpc = "top"
  /\ EpochsUnbounded => epoch < EpochCap
  /\ epoch' = epoch + 1
  /\ n_batch' = 0
  /\ lpc' = "batch"
  /\ acts' = <<>>
  /\ UNCHANGED <<max_steps, max_epochs, report_every, validate_every, save_every,
                 keep_last_n, hasValid, nTrain, startStep, step, loss_report,
                 step_report, stop, disk, saved, loaded>>

\* lines 56-91: one pass of the loop body, up to the max_steps check
Batch ==
  /\ UNCHANGED restLearn
  /\ lpc = "batch"
  /\ n_batch < nTrain
  /\ StepsUnbounded => step - startStep < StepCap
  /\ \E loss \in LossValues :
       LET s1      == OptStep(step)
           doRep   == Due(report_every, s1)
           doVal   == Due(validate_every, s1) /\ hasValid
           doSave  == Due(save_every, s1)
           doStop  == StopBySteps(s1)
           d1      == IF doSave THEN save_checkpoint(disk, s1, keep_last_n) ELSE disk
           a1      == (IF doRep  THEN <<"report">>   ELSE <<>>)
                   \o (IF doVal  THEN <<"validate">> ELSE <<>>)
                   \o (IF doSave THEN <<"save">>     ELSE <<>>)
           \* line 88-89 run; line 90 reads self.OptScheduler, which Learning
           \* never sets: AttributeError before save_checkpoint is entered
           a2      == IF doStop /\ hasValid THEN <<"final_validate">> ELSE <<>>
       IN  /\ n_batch' = n_batch + 1
           /\ step' = s1
           /\ loss_report' = IF doRep THEN 0 ELSE loss_report + loss
           /\ step_report' = IF doRep THEN 0 ELSE step_report + 1
           /\ disk' = d1
           /\ saved' = IF doSave THEN Append(saved, CkptName(s1)) ELSE saved
           /\ acts' = a1 \o a2
           /\ lpc' = IF doStop THEN "raised" ELSE "batch"
           /\ stop' = IF doStop THEN "max_steps" ELSE "none"
  /\ UNCHANGED <<max_steps, max_epochs, report_every, validate_every, save_every,
                 keep_last_n, hasValid, nTrain, startStep, epoch, loaded>>

\* lines 93-99: the training set is exhausted
EpochEnd ==
  /\ UNCHANGED restLearn
  /\ lpc = "batch"
  /\ n_batch = nTrain
  /\ IF StopByEpochs(epoch)
     THEN /\ acts' = (IF hasValid THEN <<"final_validate">> ELSE <<>>)
                     \o <<"final_save">>
          /\ disk' = save_checkpoint(disk, step, keep_last_n)
          /\ saved' = Append(saved, CkptName(step))
          /\ lpc' = "returned"
          /\ stop' = "max_epochs"
     ELSE /\ acts' = <<>>
          /\ lpc' = "top"
          /\ UNCHANGED <<disk, saved, stop>>
  /\ UNCHANGED <<max_steps, max_epochs, report_every, validate_every, save_every,
                 keep_last_n, hasValid, nTrain, startStep, epoch, n_batch, step,
                 loss_report, step_report, loaded>>

\* after learn has ended, the checkpoints of the suffix are loaded: by
\* load_checkpoint (inference) or load_checkpoint_or_initialise (learning)
LoadCheckpoint ==
  /\ UNCHANGED restLearn
  /\ lpc \in {"returned", "raised"}
  /\ loaded = NotLoaded
  /\ loaded' \in {load_checkpoint(disk), load_checkpoint_or_initialise(disk)}
  /\ UNCHANGED <<max_steps, max_epochs, report_every, validate_every, save_every,
                 keep_last_n, hasValid, nTrain, startStep, epoch, n_batch, step,
                 loss_report, step_report, lpc, stop, acts, disk, saved>>


(***************************************************************************)
(* Vocab: the reserved symbols and lookup by string.                       *)
(***************************************************************************)
idx_pad == 0
idx_unk == 1
idx_bos == 2
idx_eos == 3
idx_sep == 4
str_pad == <<"<", "p", "a", "d", ">">>
str_unk == <<"<", "u", "n", "k", ">">>
str_bos == <<"<", "b", "o", "s", ">">>
str_eos == <<"<", "e", "o", "s", ">">>
str_sep == <<"<", "s", "e", "p", ">">>

SP  == "space"     \* the character ' '
TAB == "tab"       \* the character '\t'
Whitespace == {SP, TAB}

Last(q) == q[Len(q)]
Front(q) == SubSeq(q, 1, Len(q) - 1)

\* Vocab.__contains__ and Vocab.__getitem__ for a string: the index, or idx_unk
GetItemStr(t2i, s) == IF s \in DOMAIN t2i THEN t2i[s] ELSE idx_unk

\* tok_to_idx of a vocabulary read from a well-formed file with these lines
TokToIdx(toks) == [t \in {toks[k] : k \in 1..Len(toks)} |->
                     (CHOOSE k \in 1..Len(toks) : toks[k] = t) - 1]

SrcVocab == TokToIdx(<<str_pad, str_unk, str_bos, str_eos, str_sep, <<"a">>, <<"b">> >>)
TgtVocab == TokToIdx(<<str_pad, str_unk, str_bos, str_eos, str_sep, <<"b">>, <<"a">> >>)

(***************************************************************************)
(* Dataset.__init__                                                        *)
(***************************************************************************)
SeqsUpTo(S, n) == UNION {[1..k -> S] : k \in 0..n}

RECURSIVE SumLen(_)
SumLen(lines) == IF lines = <<>> THEN 0 ELSE Len(Head(lines)) + SumLen(Tail(lines))

\* toks_idx: vocab[w] for each token, <bos> inserted in front, <eos> appended
EncodeLine(t2i, line) ==
  <<idx_bos>> \o [k \in 1..Len(line) |-> GetItemStr(t2i, line[k])] \o <<idx_eos>>

\* line 197: a target line beyond the source lines
TgtLineBeyondSrc(i, rows) == i >= rows

\* line 204: the last target line is not the last source line
TgtCountDiffers_unchecked(i, rows) == FALSE
TgtCountDiffers(i, rows) == i # rows - 1

\* the cache file: absent, or the bytes pickle.dump wrote for an object
NoFile == <<"absent">>
pickle_dump(obj) == <<"pickle", obj>>
pickle_load(file) == file[2]

\* "if ofile is not None and os.path.exists(ofile)"
UseCache_ignored == FALSE
UseCache == ofile # "None" /\ cache # NoFile

NoPrev == [pc |-> "none", batches |-> <<>>]

\* a batch collection pickled by an earlier run on another corpus
StaleBatches == << << <<0, <<2, 5, 3>>, <<2, 6, 3>> >> >> >>

\* the locals of __init__ when it is entered
DataEntry ==
  /\ dpc = "start"
  /\ derr = "none"
  /\ d_i = "unbound"
  /\ ldata = <<>>
  /\ idata = <<>>
  /\ shards = <<>>
  /\ created = <<>>
  /\ batches = <<>>

\* a Dataset built without a cache path
InitData ==
  /\ txt_src \in SeqsUpTo(SrcLineSet, MaxLines)
  /\ txt_tgt \in SeqsUpTo(TgtLineSet, MaxLines)
  /\ shard_size \in 0..MaxShard
  /\ batch_size \in 1..MaxBatch
  /\ ofile = "None"
  /\ cache = NoFile
  /\ d_calls = 1
  /\ d_prev = NoPrev
  /\ DataEntry

\* a Dataset built with or without a cache path, the file there or not
InitCache ==
  /\ txt_src \in SeqsUpTo(SrcLineSet, MaxCacheLines)
  /\ txt_tgt \in SeqsUpTo(TgtLineSet, MaxCacheLines)
  /\ shard_size \in 0..MaxShard
  /\ batch_size \in 1..MaxBatch
  /\ ofile \in {"None", "path"}
  /\ cache \in (IF ofile = "None" THEN {NoFile}
                ELSE {NoFile, pickle_dump(StaleBatches)})
  /\ d_calls = 1
  /\ d_prev = NoPrev
  /\ DataEntry

\* lines 155-158: the cache file is there and is returned as it is
CacheHit ==
  /\ UNCHANGED restData
  /\ dpc = "start"
  /\ UseCache
  /\ batches' = pickle_load(cache)
  /\ dpc' = "restored"
  /\ UNCHANGED <<txt_src, txt_tgt, shard_size, batch_size, ofile, cache, d_calls,
                 d_prev, derr, d_i, ldata, idata, shards, created>>

\* the corpus and the sizes a later construction may be given instead
OtherCorpus == << << << <<"b">>, <<"z">> >> >>, << << <<"b">> >> >> >>
OtherSizes  == <<1, 1>>

\* Dataset(...) is called again with the same cache path
Construct ==
  /\ UNCHANGED restData
  /\ dpc \in {"done", "restored"}
  /\ d_calls < MaxCalls
  /\ d_calls' = d_calls + 1
  /\ d_prev' = [pc |-> dpc, batches |-> batches]
  /\ \E c \in {<<txt_src, txt_tgt>>, OtherCorpus},
        z \in {<<shard_size, batch_size>>, OtherSizes} :
       /\ txt_src' = c[1] /\ txt_tgt' = c[2]
       /\ shard_size' = z[1] /\ batch_size' = z[2]
  /\ dpc' = "start" /\ derr' = "none" /\ d_i' = "unbound"
  /\ ldata' = <<>> /\ idata' = <<>> /\ shards' = <<>>
  /\ created' = <<>> /\ batches' = <<>>
  /\ UNCHANGED <<ofile, cache>>

Fail(e) ==
  /\ dpc' = "failed"
  /\ derr' = e

\* lines 165-182: the source file is encoded
ReadSrc ==
  /\ UNCHANGED restData
  /\ dpc = "start"
  /\ ~UseCache
  /\ LET m == Len(txt_src)
         enc == [k \in 1..m |-> EncodeLine(SrcVocab, txt_src[k])]
     IN  /\ ldata' = [k \in 1..m |-> <<enc[k]>>]
         /\ idata' = [k \in 1..m |-> <<k - 1, Len(enc[k])>>]
         /\ d_i' = IF m = 0 THEN "unbound" ELSE m - 1
         \* line 182 formats i and 100.0*nunks/ntokens
         /\ IF m = 0 THEN Fail("UnboundLocalError")
            ELSE IF SumLen(txt_src) = 0 THEN Fail("ZeroDivisionError")
            ELSE dpc' = "src_read" /\ derr' = "none"
  /\ UNCHANGED <<txt_src, txt_tgt, shard_size, batch_size, ofile, cache, d_calls,
                 d_prev, shards, created, batches>>

\* lines 184-207: the target file is encoded and paired with the source
ReadTgt ==
  /\ UNCHANGED restData
  /\ dpc = "src_read"
  /\ LET m == Len(idata)
         n == Len(txt_tgt)
         paired == IF n < m THEN n ELSE m      \* target lines that find a source line
         enc == [k \in 1..paired |-> EncodeLine(TgtVocab, txt_tgt[k])]
         i_end == IF n = 0 THEN d_i ELSE n - 1 \* i after the loop
     IN  /\ ldata' = [k \in 1..m |-> IF k <= paired THEN Append(ldata[k], enc[k])
                                                    ELSE ldata[k]]
         /\ idata' = [k \in 1..m |-> IF k <= paired THEN Append(idata[k], Len(enc[k]))
                                                    ELSE idata[k]]
         /\ IF \E i \in 0..(n - 1) : TgtLineBeyondSrc(i, m)
            THEN /\ d_i' = m
                 /\ Fail("SystemExit")
            ELSE /\ d_i' = i_end
                 /\ IF TgtCountDiffers(i_end, m) THEN Fail("SystemExit")
                    ELSE IF SumLen(txt_tgt) = 0 THEN Fail("ZeroDivisionError")
                    ELSE dpc' = "tgt_read" /\ derr' = "none"
  /\ UNCHANGED <<txt_src, txt_tgt, shard_size, batch_size, ofile, cache, d_calls,
                 d_prev, shards, created, batches>>

Perms(n) == {p \in [1..n -> 1..n] : \A a, b \in 1..n : p[a] = p[b] => a = b}

Permuted(q, p) == [k \in 1..Len(q) |-> q[p[k]]]

\* lines 210-211: np.random.shuffle(idata)
Shuffle ==
  /\ UNCHANGED restData
  /\ dpc = "tgt_read"
  /\ \E p \in Perms(Len(idata)) : idata' = Permuted(idata, p)
  /\ dpc' = "shuffled"
  /\ UNCHANGED <<txt_src, txt_tgt, shard_size, batch_size, ofile, cache, d_calls,
                 d_prev, derr, d_i, ldata,
                 shards, created, batches>>

\* operator.itemgetter(1, 2) compared as tuples
KeyLess_src_only(a, b) == a[2] < b[2]
KeyLess(a, b) == a[2] < b[2] \/ (a[2] = b[2] /\ a[3] < b[3])

\* sorted() is stable: a row goes behind every row whose key is not greater
RECURSIVE InsertRow(_, _)
InsertRow(sorted, row) ==
  IF sorted = <<>> THEN <<row>>
  ELSE IF KeyLess(row, Head(sorted)) THEN <<row>> \o sorted
  ELSE <<Head(sorted)>> \o InsertRow(Tail(sorted), row)

RECURSIVE SortRows(_)
SortRows(rows) ==
  IF rows = <<>> THEN <<>>
  ELSE InsertRow(SortRows(SubSeq(rows, 1, Len(rows) - 1)), rows[Len(rows)])

\* q[i : min(len(q), i+size)] for i in range(0, len(q), size)
RECURSIVE Slices(_, _)
Slices(q, size) ==
  IF q = <<>> THEN <<>>
  ELSE IF Len(q) <= size THEN <<q>>
  ELSE <<SubSeq(q, 1, size)>> \o Slices(SubSeq(q, size + 1, Len(q)), size)

\* lines 215-223
ShardSort ==
  /\ UNCHANGED restData
  /\ dpc = "shuffled"
  /\ IF \E k \in 1..Len(idata) : Len(idata[k]) < 3
     THEN /\ Fail("IndexError")        \* itemgetter(1, 2) on a row without target length
          /\ UNCHANGED shards
     ELSE LET size == IF shard_size = 0 THEN Len(idata) ELSE shard_size
              cut  == Slices(idata, size)
          IN  /\ shards' = [k \in 1..Len(cut) |-> SortRows(cut[k])]
              /\ dpc' = "sharded"
              /\ derr' = "none"
  /\ UNCHANGED <<txt_src, txt_tgt, shard_size, batch_size, ofile, cache, d_calls,
                 d_prev, d_i, ldata, idata,
                 created, batches>>

RECURSIVE MaxOf(_)
MaxOf(q) == IF Len(q) = 1 THEN q[1]
            ELSE LET r == MaxOf(Tail(q)) IN IF Head(q) > r THEN Head(q) ELSE r

\* list(seq) + [idx_pad] * k
Pad_left(q, pad, k) == [j \in 1..k |-> pad] \o q
Pad(q, pad, k) == q \o [j \in 1..k |-> pad]

build_batch_by_rank(shard_batch, ld, src_idx_pad, tgt_idx_pad) ==
  [k \in 1..Len(shard_batch) |-> << shard_batch[k][1], ld[k][1], ld[k][2] >>]

\* lines 239-248
build_batch(shard_batch, ld, src_idx_pad, tgt_idx_pad) ==
  LET max_src_len == MaxOf([k \in 1..Len(shard_batch) |-> shard_batch[k][2]])
      max_tgt_len == MaxOf([k \in 1..Len(shard_batch) |-> shard_batch[k][3]])
  IN  [k \in 1..Len(shard_batch) |->
         LET pos     == shard_batch[k][1]
             src_len == shard_batch[k][2]
             tgt_len == shard_batch[k][3]
         IN  << pos,
                Pad(ld[pos + 1][1], src_idx_pad, max_src_len - src_len),
                Pad(ld[pos + 1][2], tgt_idx_pad, max_tgt_len - tgt_len) >>]

RECURSIVE Flatten(_)
Flatten(qq) == IF qq = <<>> THEN <<>> ELSE Head(qq) \o Flatten(Tail(qq))

\* the batches cut from one shard, in order
ShardBatches_uncut(shard, ld, size) == << build_batch(shard, ld, idx_pad, idx_pad) >>
ShardBatches(shard, ld, size) ==
  LET cut == Slices(shard, size)
  IN  [k \in 1..Len(cut) |-> build_batch(cut[k], ld, idx_pad, idx_pad)]

\* lines 226-231
BuildBatches ==
  /\ UNCHANGED restData
  /\ dpc = "sharded"
  /\ LET bs == Flatten([k \in 1..Len(shards) |-> ShardBatches(shards[k], ldata, batch_size)])
     IN  /\ batches' = bs
         /\ created' = bs
  /\ dpc' = "built"
  /\ UNCHANGED <<txt_src, txt_tgt, shard_size, batch_size, ofile, cache, d_calls,
                 d_prev, derr, d_i, ldata, idata,
                 shards>>

\* lines 233-237: np.random.shuffle(self.batches), then the dump
ShuffleBatches ==
  /\ UNCHANGED restData
  /\ dpc = "built"
  /\ \E p \in Perms(Len(batches)) : batches' = Permuted(batches, p)
  \* lines 236-237
  /\ cache' = IF ofile # "None" THEN pickle_dump(batches') ELSE cache
  /\ dpc' = "done"
  /\ UNCHANGED <<txt_src, txt_tgt, shard_size, batch_size, ofile, d_calls,
                 d_prev, derr, d_i, ldata, idata,
                 shards, created>>

NextData == ReadSrc \/ ReadTgt \/ Shuffle \/ ShardSort \/ BuildBatches \/ ShuffleBatches

NextCache == CacheHit \/ Construct \/ NextData

(***************************************************************************)
(* Vocab.read and Vocab.__getitem__                                        *)
(***************************************************************************)
\* the lines a vocabulary file is made of
VocabLineSet ==
  { str_pad, str_unk, str_bos, str_eos, str_sep,
    <<"a">>, <<"a", SP>>, <<"a", SP, "b">>, <<"a", TAB, "b">>, <<SP, "a">>, <<>> }

\* str.rstrip(): trailing whitespace removed
RECURSIVE RStrip(_)
RStrip(l) == IF l # <<>> /\ Last(l) \in Whitespace THEN RStrip(Front(l)) ELSE l

\* "if tok in self.tok_to_idx"
Repeated(t2i, tok) == tok \in DOMAIN t2i

\* "if ' ' in tok or len(tok) == 0"
BadEntry_empty_only(tok) == Len(tok) = 0
BadEntry(tok) == (\E k \in 1..Len(tok) : tok[k] = SP) \/ Len(tok) = 0

\* the five checks of lines 104-118, in order, from the k-th on
RECURSIVE CheckReserved(_, _, _)
CheckReserved(i2t, reserved, k) ==
  IF k > Len(reserved) THEN "none"
  ELSE IF k > Len(i2t) THEN "IndexError"          \* self.idx_to_tok[idx] out of range
  ELSE IF i2t[k] # reserved[k] THEN "SystemExit"
  ELSE CheckReserved(i2t, reserved, k + 1)

\* the reserved symbols at their indices idx_pad .. idx_sep
ReservedAt(i) ==
  IF i = idx_pad THEN str_pad ELSE IF i = idx_unk THEN str_unk
  ELSE IF i = idx_bos THEN str_bos ELSE IF i = idx_eos THEN str_eos ELSE str_sep

Reserved == [k \in 1..5 |-> ReservedAt(k - 1)]

\* keys and results of vocab[key]
StrKey(t) == [kind |-> "str", i |-> 0, s |-> t]
IntKey(n) == [kind |-> "int", i |-> n, s |-> <<>>]
NoKey     == [kind |-> "none", i |-> 0, s |-> <<>>]
TokRes(t) == [kind |-> "tok", i |-> 0, s |-> t]
IdxRes(n) == [kind |-> "idx", i |-> n, s |-> <<>>]
ErrRes(e) == [kind |-> e, i |-> 0, s |-> <<>>]

\* Vocab.__contains__ for an index
ContainsInt_no_lower(n, i) == i < n
ContainsInt(n, i) == i >= 0 /\ i < n

\* a Python list read at index i
ListGet(q, i) ==
  IF i >= 0 /\ i < Len(q) THEN TokRes(q[i + 1])
  ELSE IF i < 0 /\ -i <= Len(q) THEN TokRes(q[Len(q) + i + 1])
  ELSE ErrRes("IndexError")

\* Vocab.__getitem__
GetItem(i2t, t2i, key) ==
  IF key.kind = "int"
  THEN IF ~ContainsInt(Len(i2t), key.i) THEN ErrRes("SystemExit")
       ELSE ListGet(i2t, key.i)
  ELSE IdxRes(GetItemStr(t2i, key.s))

KeySet == {StrKey(RStrip(l)) : l \in VocabLineSet} \cup {StrKey(<<"z">>)}
          \cup {IntKey(n) : n \in -2..(MaxVocabLines + 1)}

NoSkip == <<"none">>

InitVocab ==
  /\ v_exists \in BOOLEAN
  /\ v_nlines = 0
  /\ v_skip = NoSkip
  /\ idx_to_tok = <<>>
  /\ tok_to_idx = <<>>
  /\ vpc = "reading"
  /\ verr = "none"
  /\ v_key = NoKey
  /\ v_res = NoKey

\* lines 88-90
MissingFile ==
  /\ UNCHANGED restVocab
  /\ vpc = "reading"
  /\ ~v_exists
  /\ vpc' = "failed"
  /\ verr' = "SystemExit"
  /\ UNCHANGED <<v_exists, v_nlines, v_skip, idx_to_tok, tok_to_idx, v_key, v_res>>

\* lines 93-102: one line of the file
ReadLine ==
  /\ UNCHANGED restVocab
  /\ vpc = "reading"
  /\ v_exists
  /\ v_nlines < MaxVocabLines
  /\ \E l \in VocabLineSet :
       LET tok == RStrip(l)
       IN  /\ v_nlines' = v_nlines + 1
           /\ IF Repeated(tok_to_idx, tok) \/ BadEntry(tok)
              THEN /\ v_skip' = tok
                   /\ UNCHANGED <<idx_to_tok, tok_to_idx>>
              ELSE /\ v_skip' = v_skip
                   /\ idx_to_tok' = Append(idx_to_tok, tok)
                   /\ tok_to_idx' = [t \in DOMAIN tok_to_idx \cup {tok} |->
                                       IF t = tok THEN Cardinality(DOMAIN tok_to_idx)
                                                  ELSE tok_to_idx[t]]
  /\ UNCHANGED <<v_exists, vpc, verr, v_key, v_res>>

\* lines 104-119: end of file, the reserved symbols are checked
EndOfFile ==
  /\ UNCHANGED restVocab
  /\ vpc = "reading"
  /\ v_exists
  /\ LET e == CheckReserved(idx_to_tok, Reserved, 1)
     IN  /\ verr' = e
         /\ vpc' = IF e = "none" THEN "loaded" ELSE "failed"
  /\ UNCHANGED <<v_exists, v_nlines, v_skip, idx_to_tok, tok_to_idx, v_key, v_res>>

\* vocab[key] on the loaded vocabulary
Lookup ==
  /\ UNCHANGED restVocab
  /\ vpc = "loaded"
  /\ \E key \in KeySet :
       /\ v_key' = key
       /\ v_res' = GetItem(idx_to_tok, tok_to_idx, key)
  /\ UNCHANGED <<v_exists, v_nlines, v_skip, idx_to_tok, tok_to_idx, vpc, verr>>

NextVocab == MissingFile \/ ReadLine \/ EndOfFile \/ Lookup

(***************************************************************************)
(* Vocab.build                                                             *)
(***************************************************************************)
\* lines 125-130: tok_to_frq[tok] += 1 over the stream; dict keys keep insertion order
RECURSIVE CountAll(_)
CountAll(stream) ==
  IF stream = <<>> THEN [frq |-> <<>>, seen |-> <<>>]
  ELSE LET c   == CountAll(Front(stream))
           tok == Last(stream)
       IN  IF tok \in DOMAIN c.frq
           THEN [frq  |-> [c.frq EXCEPT ![tok] = @ + 1], seen |-> c.seen]
           ELSE [frq  |-> [t \in DOMAIN c.frq \cup {tok} |->
                             IF t = tok THEN 1 ELSE c.frq[t]],
                 seen |-> Append(c.seen, tok)]

\* sorted(..., key=frequency, reverse=True) keeps equal items in their order
RECURSIVE InsertByFrq(_, _, _)
InsertByFrq(sorted, tok, frq) ==
  IF sorted = <<>> THEN <<tok>>
  ELSE IF frq[tok] > frq[Head(sorted)] THEN <<tok>> \o sorted
  ELSE <<Head(sorted)>> \o InsertByFrq(Tail(sorted), tok, frq)

RECURSIVE SortByFrq(_, _)
SortByFrq(toks, frq) ==
  IF toks = <<>> THEN <<>>
  ELSE InsertByFrq(SortByFrq(Front(toks), frq), Last(toks), frq)

\* line 140: "if n == max_size or frq < min_freq: break"
BuildBreak(n, frq) == n = max_size \/ frq < min_freq

InitBuild ==
  /\ b_stream \in SeqsUpTo(BuildTokens, MaxStream)
  /\ min_freq \in MinFreqValues
  /\ max_size \in 0..MaxSize
  /\ tok_to_frq = <<>>
  /\ b_seen = <<>>
  /\ b_cands = <<>>
  /\ b_out = <<>>
  /\ b_n = 0
  /\ bpc = "count"

\* lines 123-131
BuildCount ==
  /\ UNCHANGED restBuild
  /\ bpc = "count"
  /\ LET c == CountAll(b_stream)
     IN  /\ tok_to_frq' = c.frq
         /\ b_seen' = c.seen
  /\ bpc' = "reserved"
  /\ UNCHANGED <<b_stream, min_freq, max_size, b_cands, b_out, b_n>>

\* lines 133-139: the reserved symbols are printed, the items sorted
BuildReserved ==
  /\ UNCHANGED restBuild
  /\ bpc = "reserved"
  /\ b_out' = <<str_pad, str_unk, str_bos, str_eos, str_sep>>
  /\ b_n' = 5
  /\ b_cands' = SortByFrq(b_seen, tok_to_frq)
  /\ bpc' = "emit"
  /\ UNCHANGED <<b_stream, min_freq, max_size, tok_to_frq, b_seen>>

\* lines 139-143: one pass of the loop that prints a token
BuildEmit ==
  /\ UNCHANGED restBuild
  /\ bpc = "emit"
  /\ b_cands # <<>>
  /\ ~BuildBreak(b_n, tok_to_frq[Head(b_cands)])
  /\ b_out' = Append(b_out, Head(b_cands))
  /\ b_n' = b_n + 1
  /\ b_cands' = Tail(b_cands)
  /\ UNCHANGED <<b_stream, min_freq, max_size, tok_to_frq, b_seen, bpc>>

\* lines 140-141, 144: break, or no item left
BuildStop ==
  /\ UNCHANGED restBuild
  /\ bpc = "emit"
  /\ IF b_cands = <<>> THEN TRUE ELSE BuildBreak(b_n, tok_to_frq[Head(b_cands)])
  /\ bpc' = "done"
  /\ UNCHANGED <<b_stream, min_freq, max_size, tok_to_frq, b_seen, b_cands, b_out, b_n>>

NextBuild == BuildCount \/ BuildReserved \/ BuildEmit \/ BuildStop

(***************************************************************************)
(* prepare_input and the masked softmax of the decoder self-attention      *)
(***************************************************************************)
SrcSeqs == {<<idx_bos, idx_eos>>, <<idx_bos, 5, idx_eos>>}
TgtSeqs == {<<idx_bos>> \o r : r \in SeqsUpTo({idx_pad, idx_eos}, MaxRest) \ {<<>>}}

\* torch.nn.utils.rnn.pad_sequence(batch_first=True, padding_value=pad)
pad_sequence(seqs, pad) ==
  LET width == MaxOf([b \in 1..Len(seqs) |-> Len(seqs[b])])
  IN  [b \in 1..Len(seqs) |-> Pad(seqs[b], pad, width - Len(seqs[b]))]

\* (1 - torch.triu(torch.ones(1, L, L), diagonal=1)).bool() at [i][j], from 1
CausalKeep_strict(i, j) == j < i
CausalKeep(i, j) == j <= i

\* softmax over a row of scores in which the masked ones were filled with -1e9:
\* exp underflows to exactly 0 on a masked key when some key of the row is not
\* masked; a row with every key masked is uniform, 1/L on each key
WeightIsZero(row, j) == ~row[j] /\ \E k \in 1..Len(row) : row[k]

InitMask ==
  /\ \E n \in 1..MaxElems :
       /\ batch_src \in [1..n -> SrcSeqs]
       /\ batch_tgt \in [1..n -> TgtSeqs]
  /\ p_src = <<>> /\ p_tgt = <<>> /\ p_ref = <<>>
  /\ msk_src = <<>> /\ msk_tgt = <<>> /\ w_zero = <<>>
  /\ mpc = "input"

\* Learning.py lines 12-23
prepare_input ==
  /\ UNCHANGED restMask
  /\ mpc = "input"
  /\ LET src == pad_sequence(batch_src, idx_pad)
         tgt == pad_sequence([b \in 1..Len(batch_tgt) |-> Front(batch_tgt[b])], idx_pad)
         ref == pad_sequence([b \in 1..Len(batch_tgt) |-> Tail(batch_tgt[b])], idx_pad)
         lt  == Len(tgt[1])
     IN  /\ p_src' = src
         /\ p_tgt' = tgt
         /\ p_ref' = ref
         /\ msk_src' = [b \in 1..Len(src) |-> <<[j \in 1..Len(src[b]) |-> src[b][j] # idx_pad]>>]
         /\ msk_tgt' = [b \in 1..Len(tgt) |-> [i \in 1..lt |-> [j \in 1..lt |->
                          tgt[b][j] # idx_pad /\ CausalKeep(i, j)]]]
  /\ mpc' = "prepared"
  /\ UNCHANGED <<batch_src, batch_tgt, w_zero>>

\* Model.py lines 244-246, for the decoder self-attention (msk = msk_tgt)
Attend ==
  /\ UNCHANGED restMask
  /\ mpc = "prepared"
  /\ w_zero' = [b \in 1..Len(msk_tgt) |-> [i \in 1..Len(msk_tgt[b]) |->
                  [j \in 1..Len(msk_tgt[b][i]) |-> WeightIsZero(msk_tgt[b][i], j)]]]
  /\ mpc' = "attended"
  /\ UNCHANGED <<batch_src, batch_tgt, p_src, p_tgt, p_ref, msk_src, msk_tgt>>

NextMask == prepare_input \/ Attend

(***************************************************************************)
(* The specifications: one per part, the other part's variables at rest.   *)
(***************************************************************************)
IdleLearn ==
  /\ max_steps = 0 /\ max_epochs = 0 /\ report_every = 0 /\ validate_every = 0
  /\ save_every = 0 /\ keep_last_n = 0 /\ hasValid = FALSE /\ nTrain = 0
  /\ startStep = 0 /\ epoch = 0 /\ n_batch = 0 /\ step = 0 /\ loss_report = 0
  /\ step_report = 0 /\ lpc = "idle" /\ stop = "none" /\ acts = <<>>
  /\ disk = {} /\ saved = <<>> /\ loaded = NotLoaded

IdleData ==
  /\ txt_src = <<>> /\ txt_tgt = <<>> /\ shard_size = 0 /\ batch_size = 1
  /\ dpc = "idle" /\ derr = "none" /\ d_i = "unbound" /\ ldata = <<>>
  /\ idata = <<>> /\ shards = <<>> /\ created = <<>> /\ batches = <<>>
  /\ ofile = "None" /\ cache = NoFile /\ d_calls = 0 /\ d_prev = NoPrev

IdleVocab ==
  /\ v_exists = FALSE /\ v_nlines = 0 /\ v_skip = NoSkip /\ idx_to_tok = <<>>
  /\ tok_to_idx = <<>> /\ vpc = "idle" /\ verr = "none" /\ v_key = NoKey
  /\ v_res = NoKey

IdleBuild ==
  /\ b_stream = <<>> /\ min_freq = 1 /\ max_size = 0 /\ tok_to_frq = <<>>
  /\ b_seen = <<>> /\ b_cands = <<>> /\ b_out = <<>> /\ b_n = 0 /\ bpc = "idle"

IdleMask ==
  /\ batch_src = <<>> /\ batch_tgt = <<>> /\ p_src = <<>> /\ p_tgt = <<>>
  /\ p_ref = <<>> /\ msk_src = <<>> /\ msk_tgt = <<>> /\ w_zero = <<>>
  /\ mpc = "idle"

LearnInit == InitLearn /\ IdleData /\ IdleVocab /\ IdleBuild /\ IdleMask

NextLearn == EpochStart \/ Batch \/ EpochEnd \/ LoadCheckpoint

\* learn runs on while it can; nothing says a checkpoint is ever loaded again
SpecLearn == LearnInit /\ [][NextLearn]_vars /\ WF_vars(EpochStart \/ Batch \/ EpochEnd)

DataInit == IdleLearn /\ InitData /\ IdleVocab /\ IdleBuild /\ IdleMask

SpecData == DataInit /\ [][NextData]_vars

CacheInit == IdleLearn /\ InitCache /\ IdleVocab /\ IdleBuild /\ IdleMask

SpecCache == CacheInit /\ [][NextCache]_vars

VocabInit == IdleLearn /\ IdleData /\ InitVocab /\ IdleBuild /\ IdleMask

SpecVocab == VocabInit /\ [][NextVocab]_vars

BuildInit == IdleLearn /\ IdleData /\ IdleVocab /\ InitBuild /\ IdleMask

SpecBuild == BuildInit /\ [][NextBuild]_vars

MaskInit == IdleLearn /\ IdleData /\ IdleVocab /\ IdleBuild /\ InitMask

SpecMask == MaskInit /\ [][NextMask]_vars

Stopped == {"returned", "raised"}

(***************************************************************************)
(* C1: whenever learn ends on a stop path (max_steps or max_epochs), the   *)
(* last things it did are the final validation (when a validation set is   *)
(* given) and the checkpoint save of the current step, and it returned.    *)
(***************************************************************************)
C1_FinalSaveOnEveryStop ==
  stop # "none" =>
    /\ lpc = "returned"
    /\ acts # <<>> /\ Last(acts) = "final_save"
    /\ saved # <<>> /\ Last(saved) = CkptName(step)
    /\ hasValid => (Len(acts) >= 2 /\ acts[Len(acts) - 1] = "final_validate")

(***************************************************************************)
(* C2: with max_steps = M > 0 and the step counter starting below M the    *)
(* step counter never exceeds M and the loop has left RUNNING, on the      *)
(* max_steps path, as soon as it equals M; with max_epochs = E > 0 the     *)
(* epoch counter never exceeds E and no epoch is begun after pass E; a     *)
(* limit of 0 never stops the loop; and the loop does leave RUNNING when   *)
(* max_epochs > 0, or max_steps > 0 with a non-empty training set.         *)
(***************************************************************************)
C2_Safety ==
  /\ (max_steps > 0 /\ startStep < max_steps) =>
        /\ step <= max_steps
        /\ step = max_steps => (lpc \in Stopped /\ stop = "max_steps")
  /\ max_epochs > 0 =>
        /\ epoch <= max_epochs
        /\ epoch = max_epochs => lpc # "top"
  /\ max_steps = 0 => stop # "max_steps"
  /\ max_epochs = 0 => stop # "max_epochs"
  /\ lpc \in Stopped <=> stop # "none"

C2_StopsAtLimits ==
  /\ []C2_Safety
  /\ (max_epochs > 0 \/ (max_steps > 0 /\ nTrain >= 1)) => <>(lpc \in Stopped)

\* both limits configured, the step limit hit first, after more than one batch
C2_Witness ==
  /\ stop = "max_steps" /\ step = max_steps /\ max_steps = 2
  /\ startStep = 0 /\ max_epochs = 2 /\ epoch = 1

(***************************************************************************)
(* C3: with keep_last_n = N > 0 the checkpoint files on disk are exactly   *)
(* the N most recently written ones (all of them if fewer were written);   *)
(* with keep_last_n = 0 every file written is still there.                 *)
(***************************************************************************)
RECURSIVE MostRecent(_, _)
MostRecent(hist, n) ==
  IF hist = <<>> \/ n = 0 THEN {}
  ELSE LET f    == Last(hist)
           rest == SelectSeq(SubSeq(hist, 1, Len(hist) - 1), LAMBDA x : x # f)
       IN  {f} \cup MostRecent(rest, n - 1)

C3_KeepsNMostRecent ==
  IF keep_last_n > 0
  THEN disk = MostRecent(saved, keep_last_n)
  ELSE disk = {saved[i] : i \in 1..Len(saved)}

(***************************************************************************)
(* What the text files say: the encoded example at an original position.   *)
(***************************************************************************)
SrcExample(pos) == EncodeLine(SrcVocab, txt_src[pos + 1])
TgtExample(pos) == EncodeLine(TgtVocab, txt_tgt[pos + 1])

Prefix(q, n) == SubSeq(q, 1, n)

(***************************************************************************)
(* C4: in every batch all padded sources have one length, all padded       *)
(* targets have one length, and each triple (pos, src, tgt) starts with    *)
(* the encoded source and target of line pos (bos + token indices + eos).  *)
(***************************************************************************)
C4_BatchInvariant ==
  \A b \in 1..Len(batches) :
    /\ \A j, k \in 1..Len(batches[b]) :
         /\ Len(batches[b][j][2]) = Len(batches[b][k][2])
         /\ Len(batches[b][j][3]) = Len(batches[b][k][3])
    /\ \A k \in 1..Len(batches[b]) :
         LET pos == batches[b][k][1]
         IN  /\ pos \in 0..(Len(txt_src) - 1)
             /\ LET src == SrcExample(pos)
                    tgt == TgtExample(pos)
                IN  /\ Len(batches[b][k][2]) >= Len(src)
                    /\ Len(batches[b][k][3]) >= Len(tgt)
                    /\ Prefix(batches[b][k][2], Len(src)) = src
                    /\ Prefix(batches[b][k][3], Len(tgt)) = tgt

\* a finished data set with a batch of two examples that differ in both lengths
C4_Witness ==
  /\ dpc = "done"
  /\ \E b \in 1..Len(batches) :
       /\ Len(batches[b]) = 2
       /\ Len(SrcExample(batches[b][1][1])) # Len(SrcExample(batches[b][2][1]))
       /\ Len(TgtExample(batches[b][1][1])) # Len(TgtExample(batches[b][2][1]))

(***************************************************************************)
(* C5: every shard is non-decreasing in (source length, target length),    *)
(* taken from the encoded examples, and the batches as created are         *)
(* consecutive slices of the shards: read in creation order they visit     *)
(* the examples in the shards' order, no batch reaching across a shard.    *)
(***************************************************************************)
TrueKey(p) == <<Len(SrcExample(p)), Len(TgtExample(p))>>

TrueKeyLess(a, b) == a[1] < b[1] \/ (a[1] = b[1] /\ a[2] < b[2])

Positions(rows) == [k \in 1..Len(rows) |-> rows[k][1]]

AllPositions(groups) == Flatten([g \in 1..Len(groups) |-> Positions(groups[g])])

\* where the groups end, counted in examples
RECURSIVE Ends(_)
Ends(groups) ==
  IF groups = <<>> THEN {0}
  ELSE LET front == SubSeq(groups, 1, Len(groups) - 1)
       IN  Ends(front) \cup {Len(AllPositions(groups))}

C5_ShardSort ==
  /\ \A s \in 1..Len(shards) :
       LET keys == [k \in 1..Len(shards[s]) |-> TrueKey(shards[s][k][1])]
       IN  \A k \in 1..(Len(keys) - 1) : ~TrueKeyLess(keys[k + 1], keys[k])
  /\ dpc \in {"built", "done"} =>
       /\ AllPositions(created) = AllPositions(shards)
       /\ Ends(shards) \subseteq Ends(created)

\* one shard of three examples that the sort had to reorder, two of them equal in
\* source length and told apart by target length, cut into two batches
C5_Witness ==
  /\ dpc = "done"
  /\ Len(shards) = 1 /\ Len(shards[1]) = 3 /\ Len(created) = 2
  /\ shards[1] # idata
  /\ \E k \in 1..2 : /\ shards[1][k][2] = shards[1][k + 1][2]
                     /\ shards[1][k][3] < shards[1][k + 1][3]

(***************************************************************************)
(* C10: when the two text files differ in their number of lines,           *)
(* construction never gets past reading them: it fails, and no batch is    *)
(* ever produced.                                                          *)
(***************************************************************************)
C10_LineCountMismatchIsFatal ==
  Len(txt_src) # Len(txt_tgt) =>
    /\ dpc \in {"start", "src_read", "failed"}
    /\ batches = <<>>

\* the target file is shorter than the source file, and not empty
C10_Witness ==
  /\ dpc = "failed" /\ derr = "SystemExit"
  /\ Len(txt_tgt) > 0 /\ Len(txt_tgt) < Len(txt_src)

(***************************************************************************)
(* C7: on a loaded vocabulary, vocab[t] of a string never fails; for a     *)
(* token t of the vocabulary vocab[vocab[t]] is t; for any other string    *)
(* vocab[t] is the unknown index 1; and vocab[i] of an integer outside     *)
(* 0..len-1, negative ones included, ends the program.                     *)
(***************************************************************************)
Tokens == {idx_to_tok[k] : k \in 1..Len(idx_to_tok)}

C7_Lookup ==
  /\ v_key.kind = "str" =>
       /\ v_res.kind = "idx"
       /\ v_key.s \in Tokens =>
            GetItem(idx_to_tok, tok_to_idx, IntKey(v_res.i)) = TokRes(v_key.s)
       /\ v_key.s \notin Tokens => v_res.i = 1
  /\ (v_key.kind = "int" /\ v_key.i \notin 0..(Len(idx_to_tok) - 1)) =>
       v_res.kind = "SystemExit"

\* a negative index looked up in a vocabulary that holds more than the reserved symbols
C7_Witness ==
  /\ vpc = "loaded" /\ Len(idx_to_tok) > 5
  /\ v_key.kind = "int" /\ v_key.i < 0 /\ v_res.kind = "SystemExit"

(***************************************************************************)
(* C9 as claimed: reading a vocabulary file fails or yields a vocabulary   *)
(* whose indices 0..4 are <pad>, <unk>, <bos>, <eos>, <sep>; no entry is   *)
(* repeated, empty or contains whitespace inside; tok_to_idx inverts       *)
(* idx_to_tok; and reading fails whenever the first five surviving         *)
(* entries are not the reserved symbols in order.                          *)
(***************************************************************************)
FiveReserved == <<str_pad, str_unk, str_bos, str_eos, str_sep>>

StartsWithReserved == Len(idx_to_tok) >= 5 /\ SubSeq(idx_to_tok, 1, 5) = FiveReserved

NoRepeats == \A j, k \in 1..Len(idx_to_tok) : idx_to_tok[j] = idx_to_tok[k] => j = k

Inverts ==
  /\ DOMAIN tok_to_idx = Tokens
  /\ \A k \in 1..Len(idx_to_tok) : tok_to_idx[idx_to_tok[k]] = k - 1

FailsOrLoads ==
  /\ vpc = "loaded" => StartsWithReserved
  /\ (vpc = "failed" /\ v_exists) => ~StartsWithReserved
  /\ vpc = "failed" => verr \in {"SystemExit", "IndexError"}

HasWhitespaceInside(tok) ==
  \E k \in 2..(Len(tok) - 1) : tok[k] \in Whitespace

C9_LoadSkipsWhitespace ==
  /\ FailsOrLoads
  /\ vpc = "loaded" =>
       /\ NoRepeats /\ Inverts
       /\ \A t \in Tokens : t # <<>> /\ ~HasWhitespaceInside(t)

(***************************************************************************)
(* C9 as amended: the same, with "malformed" meaning what line 98 tests:   *)
(* empty after rstrip(), or holding a space character anywhere; an entry   *)
(* is skipped only for being repeated or malformed in that sense.          *)
(***************************************************************************)
HasSpace(tok) == \E k \in 1..Len(tok) : tok[k] = SP

C9_LoadSkipsSpaces ==
  /\ FailsOrLoads /\ NoRepeats /\ Inverts
  /\ \A t \in Tokens : t # <<>> /\ ~HasSpace(t)
  /\ v_skip # NoSkip => (v_skip \in Tokens \/ v_skip = <<>> \/ HasSpace(v_skip))

\* a vocabulary loaded from a file in which an entry with a space was skipped
C9_Witness ==
  /\ vpc = "loaded" /\ Len(idx_to_tok) > 5
  /\ HasSpace(v_skip)

(***************************************************************************)
(* C6: the decoder input is the target without its last index, padded on   *)
(* the right; msk_tgt keeps entry (i, j) exactly when j <= i and decoder   *)
(* input j is not the pad index; and the attention weight of query i on    *)
(* key j is 0 whenever j > i or decoder input j is the pad index.          *)
(***************************************************************************)
C6_Masking ==
  mpc \in {"prepared", "attended"} =>
    \A b \in 1..Len(batch_tgt) :
      LET L == Len(p_tgt[b])
      IN  /\ \A j \in 1..L :
               p_tgt[b][j] = IF j < Len(batch_tgt[b]) THEN batch_tgt[b][j] ELSE 0
          /\ Len(msk_tgt[b]) = L
          /\ \A i, j \in 1..L :
               /\ msk_tgt[b][i][j] <=> (j <= i /\ p_tgt[b][j] # 0)
               /\ (mpc = "attended" /\ (j > i \/ p_tgt[b][j] = 0)) => w_zero[b][i][j]

\* two targets of different length, the longer one with a pad index inside
C6_Witness ==
  /\ mpc = "attended" /\ Len(batch_tgt) = 2
  /\ Len(batch_tgt[1]) = 3 /\ Len(batch_tgt[2]) = 2
  /\ batch_tgt[1][2] = 0
  /\ w_zero[1][2][2] /\ w_zero[2][1][2] /\ ~w_zero[1][2][1]

(***************************************************************************)
(* C8: Vocab.build prints the five reserved symbols first, then tokens in  *)
(* non-increasing frequency, none below min_freq, none left out that       *)
(* should be printed; and with max_size > 0 no token is printed once       *)
(* max_size entries are out (the five reserved ones are always printed).   *)
(***************************************************************************)
RECURSIVE Occurrences(_, _)
Occurrences(stream, tok) ==
  IF stream = <<>> THEN 0
  ELSE Occurrences(Tail(stream), tok) + (IF Head(stream) = tok THEN 1 ELSE 0)

Printed == {b_out[k] : k \in 6..Len(b_out)}

C8_Order ==
  bpc = "done" =>
    /\ Len(b_out) >= 5 /\ SubSeq(b_out, 1, 5) = FiveReserved
    /\ \A j, k \in 6..Len(b_out) :
         j < k => /\ b_out[j] # b_out[k]
                  /\ Occurrences(b_stream, b_out[j]) >= Occurrences(b_stream, b_out[k])
    /\ \A t \in Printed : Occurrences(b_stream, t) >= min_freq
    /\ \A t \in BuildTokens \ Printed :
         \/ Occurrences(b_stream, t) < min_freq
         \/ max_size > 0 /\ Len(b_out) >= max_size

C8_BoundedByMaxSize ==
  /\ C8_Order
  /\ (bpc = "done" /\ max_size > 0) => (Len(b_out) <= max_size \/ Len(b_out) = 5)

(***************************************************************************)
(* C11: building a Dataset from a source file and a target file of zero    *)
(* lines raises no error and ends with an empty batch collection.          *)
(***************************************************************************)
C11_EmptyInputBuildsEmpty ==
  (txt_src = <<>> /\ txt_tgt = <<>> /\ dpc # "idle") =>
    /\ dpc # "failed" /\ derr = "none"
    /\ batches = <<>>

(***************************************************************************)
(* C12: when a cache path is given and the file is there, construction     *)
(* returns what the file holds and builds nothing: no text is read, no     *)
(* shuffle or sort is made, the file is left as it is, whatever the        *)
(* corpus, shard_size and batch_size are.  When a path is given and the    *)
(* file is not there, the collection built is written to it, and a second  *)
(* construction with that path returns the same batches in the same order. *)
(***************************************************************************)
CacheThere == ofile = "path" /\ cache # NoFile

C12_Restored ==
  /\ dpc = "restored" =>
       /\ CacheThere /\ derr = "none"
       /\ batches = pickle_load(cache)
       /\ ldata = <<>> /\ idata = <<>> /\ shards = <<>> /\ created = <<>>
  /\ CacheThere => dpc \in {"start", "restored", "done"}
  /\ (dpc = "done" /\ ofile = "path") => cache = pickle_dump(batches)
  /\ (dpc = "restored" /\ d_prev.pc # "none") => batches = d_prev.batches

C12_CacheHit ==
  /\ []C12_Restored
  /\ [][CacheThere => /\ cache' = cache
                      /\ dpc = "start" => (dpc' = "restored" /\ batches' = pickle_load(cache))
       ]_vars

\* a second construction, given another corpus and other sizes, returns the two
\* batches the first one built and wrote
C12_Witness ==
  /\ dpc = "restored" /\ d_calls = 2 /\ d_prev.pc = "done"
  /\ Len(batches) = 2
  /\ <<txt_src, txt_tgt>> = OtherCorpus /\ <<shard_size, batch_size>> = OtherSizes

(***************************************************************************)
(* C13: among the checkpoint files written, the order of the names is the  *)
(* order of the steps (every name has the same width), and a load takes    *)
(* the checkpoint of the highest step among the files written that are     *)
(* still there.                                                            *)
(***************************************************************************)
HighestStep(d) == CHOOSE s \in {StepOf(f) : f \in d} : \A f \in d : StepOf(f) <= s

C13_LoadsHighestStep ==
  /\ \A j, k \in 1..Len(saved) :
       /\ Len(saved[j]) = Len(saved[k])
       /\ LexLess(saved[j], saved[k]) <=> StepOf(saved[j]) < StepOf(saved[k])
  /\ (loaded # NotLoaded /\ disk # {}) =>
       (loaded.kind = "loaded" /\ loaded.step = HighestStep(disk))
  /\ (loaded # NotLoaded /\ disk = {}) => loaded.kind \in {"SystemExit", "initialised"}

(***************************************************************************)
(* C14: in every batch the padded source length is the greatest unpadded   *)
(* source length of its examples and the padded target length the greatest *)
(* unpadded target length; each sequence of unpadded length n is its       *)
(* encoded example followed by exactly (that maximum - n) pad indices.     *)
(***************************************************************************)
Greatest(S) == CHOOSE m \in S : \A x \in S : x <= m

Pads(n) == [j \in 1..n |-> idx_pad]

C14_RightPadding ==
  \A b \in 1..Len(batches) :
    LET rows   == 1..Len(batches[b])
        srcs   == [k \in rows |-> SrcExample(batches[b][k][1])]
        tgts   == [k \in rows |-> TgtExample(batches[b][k][1])]
        maxSrc == Greatest({Len(srcs[k]) : k \in rows})
        maxTgt == Greatest({Len(tgts[k]) : k \in rows})
    IN  \A k \in rows :
          /\ batches[b][k][2] = srcs[k] \o Pads(maxSrc - Len(srcs[k]))
          /\ batches[b][k][3] = tgts[k] \o Pads(maxTgt - Len(tgts[k]))
          /\ Len(batches[b][k][2]) = maxSrc
          /\ Len(batches[b][k][3]) = maxTgt

\* a batch of two: an empty source line beside one of two tokens gets two pad
\* indices behind <bos> <eos>, and its empty target line one
C14_Witness ==
  /\ dpc = "done"
  /\ \E b \in 1..Len(batches) :
       /\ Len(batches[b]) = 2
       /\ \E k \in 1..2 : /\ batches[b][k][2] = <<2, 3, 0, 0>>
                          /\ batches[b][k][3] = <<2, 3, 0>>
       /\ \E k \in 1..2 : Len(SrcExample(batches[b][k][1])) = 4

(***************************************************************************)
(* C15 as claimed: after each optimizer step, each of the report, the      *)
(* validation pass and the checkpoint save is done exactly when its        *)
(* interval is > 0 and the step counter is a multiple of it, in the order  *)
(* report, validate, save and ahead of what the max_steps stop does; the   *)
(* report resets the two accumulators to zero; an interval of 0 never      *)
(* acts.                                                                   *)
(***************************************************************************)
Multiple(every, s) == every > 0 /\ s % every = 0

IsIntervalAct(a) == a \in {"report", "validate", "save"}

AfterBatch == lpc \in {"batch", "raised"} /\ n_batch >= 1

ExpectedActs(validates) ==
     (IF Multiple(report_every, step) THEN <<"report">> ELSE <<>>)
  \o (IF validates THEN <<"validate">> ELSE <<>>)
  \o (IF Multiple(save_every, step) THEN <<"save">> ELSE <<>>)

IntervalActs(validates) ==
  AfterBatch =>
    /\ SelectSeq(acts, IsIntervalAct) = ExpectedActs(validates)
    /\ Len(acts) >= Len(ExpectedActs(validates))
    /\ SubSeq(acts, 1, Len(ExpectedActs(validates))) = ExpectedActs(validates)
    /\ Multiple(report_every, step) => (loss_report = 0 /\ step_report = 0)
    /\ ~Multiple(report_every, step) => (loss_report > 0 /\ step_report > 0)
    /\ Multiple(save_every, step) => (saved # <<>> /\ Last(saved) = CkptName(step))

C15_ValidatesAtEveryInterval == IntervalActs(Multiple(validate_every, step))

(***************************************************************************)
(* C15 as amended: the same, the validation pass being done exactly when   *)
(* its interval is > 0, the step counter is a multiple of it and a         *)
(* validation set was given.                                               *)
(***************************************************************************)
C15_IntervalActions == IntervalActs(Multiple(validate_every, step) /\ hasValid)

\* step 2 with report_every = 2, validate_every = 1, save_every = 2: all three act
C15_Witness ==
  /\ lpc = "batch" /\ step = 2 /\ hasValid
  /\ report_every = 2 /\ validate_every = 1 /\ save_every = 2
  /\ acts = <<"report", "validate", "save">>
  /\ step_report = 0

(***************************************************************************)
(* C16: once the batches of n >= 1 parallel examples are built, each       *)
(* original position 0..n-1 is in exactly one triple of exactly one batch, *)
(* every batch holds 1..batch_size triples, the triples of a batch come    *)
(* from one shard (a run of shard_size consecutive rows of the shuffled    *)
(* examples), and with shard_size = 0 there are ceil(n / batch_size)       *)
(* batches.                                                                *)
(***************************************************************************)
NExamples == Len(txt_src)

\* the shard of an example: where the shuffle put it, in runs of shard_size
ShardOf(pos) ==
  LET rank == CHOOSE r \in 1..Len(idata) : idata[r][1] = pos
      size == IF shard_size = 0 THEN NExamples ELSE shard_size
  IN  (rank - 1) \div size

CeilDiv(a, b) == (a + b - 1) \div b

C16_Partition ==
  dpc \in {"built", "done"} =>
    /\ NExamples >= 1
    /\ LET all == AllPositions(batches)
       IN  /\ Len(all) = NExamples
           /\ {all[k] : k \in 1..Len(all)} = 0..(NExamples - 1)
    /\ \A b \in 1..Len(batches) :
         /\ Len(batches[b]) \in 1..batch_size
         /\ \A j, k \in 1..Len(batches[b]) :
              ShardOf(batches[b][j][1]) = ShardOf(batches[b][k][1])
    /\ shard_size = 0 => Len(batches) = CeilDiv(NExamples, batch_size)

\* three examples in one shard, cut into ceil(3 / 2) = 2 batches, and the shuffle
\* has moved the examples
C16_Witness ==
  /\ dpc = "done" /\ NExamples = 3 /\ shard_size = 0 /\ batch_size = 2
  /\ Len(batches) = 2
  /\ idata[1][1] # 0

====
